---- MODULE Spec2Model ----
(***************************************************************************)
(* Model of module4/my-find.c: a find-like command that traverses a        *)
(* directory tree with a bounded pool of pthreads.  The state is the       *)
(* ThreadState structure (slot table, available count, recursive mutex),   *)
(* the Settings, the call stack of every thread (visitDir frames and the   *)
(* position inside startVisitThread / runVisitThread / main), the lines    *)
(* written to stdout and the diagnostics written to stderr.                *)
(***************************************************************************)
EXTENDS Integers, Sequences, FiniteSets, TLC

\* ------------------------------------------------------------------------
\* Bounds of the model (not program constants)

\* largest thread capacity requested with -t that is kept as it is
MaxCap == 2
\* number of nested directories below the root in the chain-shaped tree
MaxDepth == 3

\* ------------------------------------------------------------------------
\* Program constants

MAX_THREADS == 255
SLOT_MAIN_THREAD == 255
TRACE == 0
VERBOSE == 1
NORMAL == 2
ERROR == 3
OFF == 4
\* width of uint8_t (threadCapacity, availableThreadCount)
UINT8 == 256

\* ------------------------------------------------------------------------
\* File names are sequences of characters; a path is a sequence of names
\* (the code joins them with "/" in buffers of NAME_MAX bytes; the paths of
\* the file systems below are far shorter than that).

Dot == <<".">>
DotDot == <<".", ".">>

DotEntry == [name |-> Dot, type |-> "DT_DIR", node |-> -1]
DotDotEntry == [name |-> DotDot, type |-> "DT_DIR", node |-> -1]

File(n) == [name |-> n, type |-> "DT_REG", node |-> -1]
Link(n) == [name |-> n, type |-> "DT_LNK", node |-> -1]
Other(n) == [name |-> n, type |-> "DT_SOCK", node |-> -1]
Dir(n, d) == [name |-> n, type |-> "DT_DIR", node |-> d]

\* the id of the thread that is main, and of the root directory: a worker
\* thread is identified by the directory it was created for
Main == 0
\* value of a ThreadRef.thread field that pthread_create never wrote
NoThread == -1

\* ------------------------------------------------------------------------
\* The file systems the program is run on.  kind is what lstat(path) finds;
\* dirs maps a directory to what readdir yields, in order; unreadable are
\* the directories opendir fails on.

\* root/{a.t, b.l, sub/{c.t}}
FsScenario ==
  [kind |-> "dir",
   dirs |-> (0 :> <<DotEntry, DotDotEntry, File(<<"a", ".", "t">>),
                    File(<<"b", ".", "l">>), Dir(<<"s">>, 1)>>)
         @@ (1 :> <<DotEntry, DotDotEntry, File(<<"c", ".", "t">>)>>),
   unreadable |-> {}]

\* root/d/d/.../d/f.t with MaxDepth nested directories
FsChain ==
  [kind |-> "dir",
   dirs |-> [d \in 0..MaxDepth |->
               IF d < MaxDepth
               THEN <<DotEntry, DotDotEntry, Dir(<<"d">>, d + 1)>>
               ELSE <<DotDotEntry, DotEntry, File(<<"f", ".", "t">>)>>],
   unreadable |-> {}]

\* root/{y/{g.t, w/{}}, l.t -> symlink, k (socket), x/ (unreadable), z.t}
FsMixed ==
  [kind |-> "dir",
   dirs |-> (0 :> <<DotEntry, DotDotEntry, Dir(<<"y">>, 2),
                    Link(<<"l", ".", "t">>), Other(<<"k">>),
                    Dir(<<"x">>, 1), File(<<"z", ".", "t">>)>>)
         @@ (1 :> <<DotEntry, DotDotEntry, File(<<"h", ".", "t">>)>>)
         @@ (2 :> <<DotEntry, DotDotEntry, File(<<"g", ".", "t">>),
                    Dir(<<"w">>, 3)>>)
         @@ (3 :> <<DotEntry, DotDotEntry>>),
   unreadable |-> {1}]

\* root/{p/{}, q/{u/{e.t}}}
FsFork ==
  [kind |-> "dir",
   dirs |-> (0 :> <<DotEntry, DotDotEntry, Dir(<<"p">>, 1), Dir(<<"q">>, 2)>>)
         @@ (1 :> <<DotEntry, DotDotEntry>>)
         @@ (2 :> <<DotEntry, DotDotEntry, Dir(<<"u">>, 3)>>)
         @@ (3 :> <<DotEntry, DotDotEntry, File(<<"e", ".", "t">>)>>),
   unreadable |-> {}]

\* the root is a directory that opendir cannot open
FsRootUnreadable ==
  [kind |-> "dir",
   dirs |-> (0 :> <<DotEntry, DotDotEntry, File(<<"a", ".", "t">>)>>),
   unreadable |-> {0}]

\* the path is a regular file, does not exist, or lstat fails otherwise
FsNotDir == [kind |-> "file", dirs |-> (0 :> <<>>), unreadable |-> {}]
FsMissing == [kind |-> "ENOENT", dirs |-> (0 :> <<>>), unreadable |-> {}]
FsNoAccess == [kind |-> "EACCES", dirs |-> (0 :> <<>>), unreadable |-> {}]

FileSystems ==
  {FsScenario, FsChain, FsMixed, FsFork, FsRootUnreadable, FsNotDir,
   FsMissing, FsNoAccess}

\* the thread ids: main and one per directory a worker can be created for
Tids == 0..(IF MaxDepth > 3 THEN MaxDepth ELSE 3)

RootPath == <<<<"r">>>>

\* ------------------------------------------------------------------------
\* The command lines.  An option is [o |-> letter, v |-> argument].

OptP(p) == [o |-> "p", v |-> p]
OptR == [o |-> "r", v |-> <<>>]
OptL(l) == [o |-> "l", v |-> l]
OptT(n) == [o |-> "t", v |-> n]
OptH == [o |-> "h", v |-> <<>>]

Patterns == {<<"*", ".", "t">>, <<"*">>}

\* values of -t: kept, not positive, and above MAX_THREADS
TValues == (1..MaxCap) \cup {0, MAX_THREADS + 1, MAX_THREADS + 2, MAX_THREADS + 3}

TOpts == {<<>>} \cup {<<OptT(n)>> : n \in TValues}
             \cup {<<OptT(MaxCap), OptT(1)>>}
LOpts == {<<>>, <<OptL("off")>>, <<OptL("trace")>>}
ROpts == {<<>>, <<OptR>>}
POpts == {<<OptP(p)>> : p \in Patterns}

CommandLines ==
  {l \o t \o r \o p : l \in LOpts, t \in TOpts, r \in ROpts, p \in POpts}
   \cup {<<OptR>>, <<OptH>>, <<OptL("loud"), OptR>>,
         <<OptL("error"), OptL("verbose"), OptL("normal"), OptR>>,
         <<OptT(MAX_THREADS), OptP(<<"*">>)>>}


\* ------------------------------------------------------------------------
\* State

VARIABLES
  fs,        \* the file system the run sees (never changes)
  argv,      \* the options of the command line (never changes)
  settings,  \* Settings: pattern, isRecursive, systemLogLevel
  ts,        \* ThreadState: threadCapacity, availableThreadCount, threadRefs
  mutex,     \* ThreadState.mutex: owner (NoThread when free) and lock count
  th,        \* per thread: pc, stack of visitDir frames, locals
  mainv,     \* locals of main: optind, exitCode, slot and thread of the join loop
  out,       \* the lines written to stdout by outputMatch, in order
  err,       \* the diagnostics written to stderr
  opened,    \* the directories opendir was called on
  joined,    \* the threads pthread_join has returned for
  status,    \* "running", or how the process ended
  heap,      \* the VisitContext copies made with safemalloc, by directory
  sh         \* the state of my-shell (module5, module6), a program of its own

vars == <<fs, argv, settings, ts, mutex, th, mainv, out, err, opened, joined, status, heap, sh>>

\* ------------------------------------------------------------------------
\* Pure functions of the program

\* logIt prints only when currentLevel >= systemLevel
logIt(systemLevel, currentLevel) == currentLevel >= systemLevel

\* fnmatch(pattern, name, FNM_PATHNAME) == 0 for patterns made of literal
\* characters, ? and *
RECURSIVE fnmatch(_, _)
fnmatch(p, s) ==
  IF p = <<>> THEN s = <<>>
  ELSE IF Head(p) = "*"
       THEN \/ fnmatch(Tail(p), s)
            \/ s # <<>> /\ Head(s) # "/" /\ fnmatch(p, Tail(s))
  ELSE IF Head(p) = "?"
       THEN s # <<>> /\ Head(s) # "/" /\ fnmatch(Tail(p), Tail(s))
  ELSE s # <<>> /\ Head(s) = Head(p) /\ fnmatch(Tail(p), Tail(s))

\* outputMatch without the test of the pattern
outputMatch_NoPattern(set, path, name) ==
  IF logIt(set.systemLogLevel, NORMAL) THEN <<path>> ELSE <<>>

\* outputMatch: the lines it adds to stdout for one file
outputMatch(set, path, name) ==
  IF fnmatch(set.pattern, name) /\ logIt(set.systemLogLevel, NORMAL)
  THEN <<path>>
  ELSE <<>>

\* (uint8_t) of an int
CastUint8(n) == n % UINT8

\* newSettings
newSettings == [pattern |-> <<>>, isRecursive |-> FALSE, systemLogLevel |-> NORMAL]

\* the ThreadState on main's stack before newThreadState ran: no slot of
\* threadRefs has been written
RawThreadState ==
  [threadCapacity |-> 0, availableThreadCount |-> 0, threadRefs |-> <<>>]

\* threadRefs[slot]: the sequence holds the slots written so far, from 0
Ref(t, slot) == t.threadRefs[slot + 1]

\* a second initialisation that never lowers the capacity
newThreadState_NeverLowered(t, threadCapacity) ==
  LET kept == IF threadCapacity > t.threadCapacity
              THEN threadCapacity ELSE t.threadCapacity
  IN [threadCapacity |-> kept,
      availableThreadCount |-> kept,
      threadRefs |-> [i \in 1..kept |-> [thread |-> NoThread, isAvailable |-> TRUE]]]

\* newThreadState: the capacity assertion, then capacity, count and the
\* isAvailable flag of the slots below the capacity; the thread fields are
\* left as they are
newThreadState(t, threadCapacity) ==
  [threadCapacity |-> threadCapacity,
   availableThreadCount |-> threadCapacity,
   threadRefs |->
     [i \in 1..(IF threadCapacity > Len(t.threadRefs)
                THEN threadCapacity ELSE Len(t.threadRefs)) |->
        IF i <= threadCapacity
        THEN [thread |-> IF i <= Len(t.threadRefs)
                         THEN t.threadRefs[i].thread ELSE NoThread,
              isAvailable |-> TRUE]
        ELSE t.threadRefs[i]]]

\* the assertion of newThreadState on its uint8_t parameter
CapacityAccepted(threadCapacity) == threadCapacity <= MAX_THREADS

\* the scan started from the last slot
FindSlot_FromTop(t) ==
  LET free == {s \in 0..(t.threadCapacity - 1) : Ref(t, s).isAvailable}
  IN IF free = {} THEN t.threadCapacity
     ELSE CHOOSE s \in free : \A r \in free : s >= r

\* the scan without the test of isAvailable
FindSlot_AnySlot(t) == 0

\* the scan of startVisitThread: the first slot below the capacity whose
\* isAvailable is set, the capacity when there is none
FindSlot(t) ==
  LET free == {s \in 0..(t.threadCapacity - 1) : Ref(t, s).isAvailable}
  IN IF free = {} THEN t.threadCapacity
     ELSE CHOOSE s \in free : \A r \in free : s <= r

\* the count left as it is
AddAvailable_Forgotten(t, n) == t

SetAvailable(t, slot, b) ==
  [t EXCEPT !.threadRefs[slot + 1].isAvailable = b]
SetThread(t, slot, id) ==
  [t EXCEPT !.threadRefs[slot + 1].thread = id]
AddAvailable(t, n) ==
  [t EXCEPT !.availableThreadCount = (t.availableThreadCount + n) % UINT8]


\* ------------------------------------------------------------------------
\* Helpers of the actions

Running == status = "running"

Diag(tag, dir) == [tag |-> tag, dir |-> dir]

\* what logIt adds to stderr for an ERROR message
LogError(tag, dir) ==
  IF logIt(settings.systemLogLevel, ERROR) THEN {Diag(tag, dir)} ELSE {}

\* a visitDir call: the directory, its path, the index of the next entry
\* readdir yields, and whether opendir returned a stream
Frame(dir, path) == [dir |-> dir, path |-> path, pos |-> 1, open |-> FALSE]

Top(t) == th[t].stack[Len(th[t].stack)]
Pop(stack) == SubSeq(stack, 1, Len(stack) - 1)
SetTop(stack, f) == [stack EXCEPT ![Len(stack)] = f]
Entries(f) == fs.dirs[f.dir]

NoChild == [dir |-> -1, path |-> <<>>]

\* a VisitContext on the heap: whether it is allocated, the thread it was
\* handed to with pthread_create, how often it was passed to free, and how
\* often the thread that made it accessed it after handing it over
NoContext == [state |-> "none", thread |-> NoThread, frees |-> 0, reads |-> 0]

\* safemalloc and the copy of the caller's context
Allocated(c) == [c EXCEPT !.state = "allocated"]

\* an access through threadContext after pthread_create was given it
ReadByMaker(c) == [c EXCEPT !.reads = @ + 1]

\* free that is never called
Freed_Never(c) == c

\* safefree(context)
Freed(c) == [c EXCEPT !.state = "freed", !.frees = @ + 1]

IdleThread ==
  [pc |-> "none", stack |-> <<>>, child |-> NoChild, slot |-> 0,
   threadSlot |-> SLOT_MAIN_THREAD]

\* every thread goes through the release part of runVisitThread
AfterVisit_AlwaysRelease(t, stack) ==
  IF stack # <<>> THEN "readdir" ELSE "rel_lock"

\* where a thread continues when visitDir returns with `stack` left: in the
\* readdir loop of the caller's visitDir (through startVisitThread), in the
\* join loop of main, or in the release part of runVisitThread
AfterVisit(t, stack) ==
  IF stack # <<>> THEN "readdir"
  ELSE IF t = Main THEN "join" ELSE "rel_lock"

\* a lock that excludes nobody
CanLock_Always(t) == TRUE

\* pthread_mutex_lock / unlock on the recursive mutex
CanLock(t) == mutex.owner = NoThread \/ mutex.owner = t
Locked(t) == [owner |-> t, count |-> mutex.count + 1]

\* an unlock that leaves the mutex with its owner
Unlocked_Kept == mutex

Unlocked ==
  IF mutex.count > 1 THEN [mutex EXCEPT !.count = mutex.count - 1]
  ELSE [owner |-> NoThread, count |-> 0]

\* the shell is not the program that runs
ShellOff == [pc |-> "off"]

\* ------------------------------------------------------------------------
\* Init: main up to the option loop (newSettings, newThreadState(.., 0))

Init ==
  /\ fs \in FileSystems
  /\ argv \in CommandLines
  /\ settings = newSettings
  /\ ts = newThreadState(RawThreadState, 0)
  /\ mutex = [owner |-> NoThread, count |-> 0]
  /\ th = [t \in Tids |-> IF t = Main THEN [IdleThread EXCEPT !.pc = "getopt"]
                          ELSE IdleThread]
  /\ mainv = [optind |-> 1, exitCode |-> "EXIT_SUCCESS", slot |-> 0,
              thread |-> NoThread]
  /\ out = <<>>
  /\ err = {}
  /\ opened = {}
  /\ joined = {}
  /\ status = "running"
  /\ heap = [c \in Tids |-> NoContext]
  /\ sh = ShellOff

\* ------------------------------------------------------------------------
\* main: option processing

LogLevelOf(name) ==
  CASE name = "off" -> OFF
    [] name = "error" -> ERROR
    [] name = "normal" -> NORMAL
    [] name = "verbose" -> VERBOSE
    [] name = "trace" -> TRACE
    [] OTHER -> -1

\* one turn of the getopt loop
MainGetopt ==
  /\ Running /\ th[Main].pc = "getopt"
  /\ UNCHANGED <<sh, fs, argv, heap, mutex, out, opened, joined>>
  /\ IF mainv.optind > Len(argv)
     THEN /\ th' = [th EXCEPT ![Main].pc = "pattern"]
          /\ UNCHANGED <<settings, ts, mainv, err, status>>
     ELSE LET opt == argv[mainv.optind]
              next == [mainv EXCEPT !.optind = mainv.optind + 1]
          IN CASE opt.o = "h" ->
                    /\ mainv' = [next EXCEPT !.exitCode = "EXIT_SUCCESS"]
                    /\ th' = [th EXCEPT ![Main].pc = "Finally"]
                    /\ UNCHANGED <<settings, ts, err, status>>
               [] opt.o = "p" ->
                    /\ settings' = [settings EXCEPT !.pattern = opt.v]
                    /\ mainv' = next
                    /\ UNCHANGED <<ts, th, err, status>>
               [] opt.o = "r" ->
                    /\ settings' = [settings EXCEPT !.isRecursive = TRUE]
                    /\ mainv' = next
                    /\ UNCHANGED <<ts, th, err, status>>
               [] opt.o = "l" ->
                    IF LogLevelOf(opt.v) >= 0
                    THEN /\ settings' = [settings EXCEPT
                                           !.systemLogLevel = LogLevelOf(opt.v)]
                         /\ mainv' = next
                         /\ UNCHANGED <<ts, th, err, status>>
                    ELSE /\ err' = err \cup {Diag("UnknownLogLevel", -1)}
                         /\ mainv' = [next EXCEPT !.exitCode = "EXIT_FAILURE"]
                         /\ th' = [th EXCEPT ![Main].pc = "Finally"]
                         /\ UNCHANGED <<settings, ts, status>>
               [] opt.o = "t" ->
                    IF ~(opt.v > 0)
                    THEN \* assertIt(threadCapacity > 0, ..)
                         /\ err' = err \cup {Diag("CapacityNotPositive", -1)}
                         /\ status' = "EXIT_FAILURE"
                         /\ UNCHANGED <<settings, ts, th, mainv>>
                    ELSE IF ~CapacityAccepted(CastUint8(opt.v))
                    THEN \* the assertion of newThreadState
                         /\ err' = err \cup {Diag("CapacityAboveMax", -1)}
                         /\ status' = "EXIT_FAILURE"
                         /\ UNCHANGED <<settings, ts, th, mainv>>
                    ELSE /\ ts' = newThreadState(ts, CastUint8(opt.v))
                         /\ mainv' = next
                         /\ UNCHANGED <<settings, th, err, status>>

\* main without the test of the pattern
MainPattern_Unchecked ==
  /\ Running /\ th[Main].pc = "pattern"
  /\ th' = [th EXCEPT ![Main].pc = "lstat"]
  /\ UNCHANGED <<sh, fs, argv, heap, settings, ts, mutex, mainv, out, err, opened, joined, status>>

\* the pattern must not be empty
MainPattern ==
  /\ Running /\ th[Main].pc = "pattern"
  /\ UNCHANGED <<sh, fs, argv, heap, settings, ts, mutex, out, opened, joined, status>>
  /\ IF Len(settings.pattern) = 0
     THEN /\ err' = err \cup LogError("PatternMissing", -1)
          /\ mainv' = [mainv EXCEPT !.exitCode = "EXIT_FAILURE"]
          /\ th' = [th EXCEPT ![Main].pc = "Finally"]
     ELSE /\ th' = [th EXCEPT ![Main].pc = "lstat"]
          /\ UNCHANGED <<mainv, err>>

\* main without the test of lstat's result
MainLstat_Unchecked ==
  /\ Running /\ th[Main].pc = "lstat"
  /\ th' = [th EXCEPT ![Main].pc = "isdir"]
  /\ UNCHANGED <<sh, fs, argv, heap, settings, ts, mutex, mainv, out, err, opened, joined, status>>

\* lstat(path)
MainLstat ==
  /\ Running /\ th[Main].pc = "lstat"
  /\ UNCHANGED <<sh, fs, argv, heap, settings, ts, mutex, out, opened, joined, status>>
  /\ IF fs.kind \in {"ENOENT", "EACCES"}
     THEN /\ err' = err \cup LogError(IF fs.kind = "ENOENT" THEN "NotFound"
                                      ELSE "AccessError", -1)
          /\ mainv' = [mainv EXCEPT !.exitCode = "EXIT_FAILURE"]
          /\ th' = [th EXCEPT ![Main].pc = "Finally"]
     ELSE /\ th' = [th EXCEPT ![Main].pc = "isdir"]
          /\ UNCHANGED <<mainv, err>>

\* S_ISDIR: the call of visitDir on the root, or the invalid-type error
MainIsDir ==
  /\ Running /\ th[Main].pc = "isdir"
  /\ UNCHANGED <<sh, fs, argv, heap, settings, ts, mutex, out, opened, joined, status>>
  /\ IF fs.kind = "dir"
     THEN /\ th' = [th EXCEPT ![Main].pc = "opendir",
                              ![Main].stack = <<Frame(Main, RootPath)>>,
                              ![Main].threadSlot = SLOT_MAIN_THREAD]
          /\ UNCHANGED <<mainv, err>>
     ELSE /\ err' = err \cup LogError("InvalidType", -1)
          /\ mainv' = [mainv EXCEPT !.exitCode = "EXIT_FAILURE"]
          /\ th' = [th EXCEPT ![Main].pc = "Finally"]


\* ------------------------------------------------------------------------
\* visitDir

\* opendir(context->dirInfo.path); on failure the error is logged and the
\* function goes on to closedir(dir) with dir == NULL
OpenDir(t) ==
  /\ Running /\ th[t].pc = "opendir"
  /\ opened' = opened \cup {Top(t).dir}
  /\ IF Top(t).dir \in fs.unreadable
     THEN /\ err' = err \cup LogError("CouldNotAccess", Top(t).dir)
          /\ th' = [th EXCEPT ![t].pc = "closedir_null"]
     ELSE /\ th' = [th EXCEPT ![t].pc = "readdir",
                              ![t].stack = SetTop(@, [Top(t) EXCEPT !.open = TRUE])]
          /\ UNCHANGED err
  /\ UNCHANGED <<sh, fs, argv, heap, settings, ts, mutex, mainv, out, joined, status>>

\* closedir(NULL) has no defined behaviour: it returns an error (glibc), or
\* the process dies dereferencing the stream (SIGSEGV)
CloseDirNull(t) ==
  /\ Running /\ th[t].pc = "closedir_null"
  /\ \E outcome \in {"returns", "crashes"} :
       IF outcome = "returns"
       THEN /\ th' = [th EXCEPT ![t].stack = Pop(@),
                                ![t].pc = AfterVisit(t, Pop(th[t].stack))]
            /\ mainv' = IF t = Main /\ Len(th[t].stack) = 1
                        THEN [mainv EXCEPT !.slot = 0] ELSE mainv
            /\ UNCHANGED status
       ELSE /\ status' = "SIGSEGV"
            /\ UNCHANGED <<th, mainv>>
  /\ UNCHANGED <<sh, fs, argv, heap, settings, ts, mutex, out, err, opened, joined>>

AtEntry(t) ==
  /\ Running /\ th[t].pc = "readdir"
  /\ Top(t).pos <= Len(Entries(Top(t)))

Entry(t) == Entries(Top(t))[Top(t).pos]

\* the stack with the readdir position of the top frame moved on
Advanced(t) == SetTop(th[t].stack, [Top(t) EXCEPT !.pos = @ + 1])

\* case DT_REG, DT_LNK: the callback is called with the path and the name
VisitFile(t) ==
  /\ AtEntry(t)
  /\ Entry(t).type \in {"DT_REG", "DT_LNK"}
  /\ out' = out \o outputMatch(settings, Top(t).path \o <<Entry(t).name>>,
                               Entry(t).name)
  /\ th' = [th EXCEPT ![t].stack = Advanced(t)]
  /\ UNCHANGED <<sh, fs, argv, heap, settings, ts, mutex, mainv, err, opened, joined, status>>

\* the condition without the test of settings->isRecursive
Descends_Always(set, name) == name # Dot /\ name # DotDot

\* the condition under which a DT_DIR entry is handed to startVisitThread
Descends(set, name) == set.isRecursive /\ name # Dot /\ name # DotDot

\* case DT_DIR: startVisitThread is called with a child context
VisitSubDir(t) ==
  /\ AtEntry(t)
  /\ Entry(t).type = "DT_DIR"
  /\ IF Descends(settings, Entry(t).name)
     THEN th' = [th EXCEPT ![t].stack = Advanced(t),
                           ![t].child = [dir |-> Entry(t).node,
                                         path |-> Top(t).path \o <<Entry(t).name>>],
                           ![t].pc = "lock"]
     ELSE th' = [th EXCEPT ![t].stack = Advanced(t)]
  /\ UNCHANGED <<sh, fs, argv, heap, settings, ts, mutex, mainv, out, err, opened, joined, status>>

\* default: other entry types are ignored
VisitOther(t) ==
  /\ AtEntry(t)
  /\ Entry(t).type \notin {"DT_REG", "DT_LNK", "DT_DIR"}
  /\ th' = [th EXCEPT ![t].stack = Advanced(t)]
  /\ UNCHANGED <<sh, fs, argv, heap, settings, ts, mutex, mainv, out, err, opened, joined, status>>

\* readdir returns NULL: closedir and return to the caller
VisitReturn(t) ==
  /\ Running /\ th[t].pc = "readdir"
  /\ Top(t).pos > Len(Entries(Top(t)))
  /\ th' = [th EXCEPT ![t].stack = Pop(@),
                      ![t].pc = AfterVisit(t, Pop(th[t].stack))]
  /\ mainv' = IF t = Main /\ Len(th[t].stack) = 1
              THEN [mainv EXCEPT !.slot = 0] ELSE mainv
  /\ UNCHANGED <<sh, fs, argv, heap, settings, ts, mutex, out, err, opened, joined, status>>

\* ------------------------------------------------------------------------
\* startVisitThread

\* pthread_mutex_lock at the top of startVisitThread
StartLock(t) ==
  /\ Running /\ th[t].pc = "lock"
  /\ CanLock(t)
  /\ mutex' = Locked(t)
  /\ th' = [th EXCEPT ![t].pc = "check"]
  /\ UNCHANGED <<sh, fs, argv, heap, settings, ts, mainv, out, err, opened, joined, status>>

\* the test of availableThreadCount, the scan for a slot and the copy of
\* the context (safemalloc ends the process when malloc fails)
StartCheck(t) ==
  /\ Running /\ th[t].pc = "check"
  /\ IF ts.availableThreadCount > 0 /\ FindSlot(ts) # ts.threadCapacity
     THEN \E allocated \in BOOLEAN :
            IF allocated
            THEN /\ th' = [th EXCEPT ![t].slot = FindSlot(ts), ![t].pc = "mark"]
                 /\ heap' = [heap EXCEPT ![th[t].child.dir] = Allocated(@)]
                 /\ UNCHANGED <<err, status>>
            ELSE /\ err' = err \cup {Diag("CouldNotAllocate", -1)}
                 /\ status' = "EXIT_FAILURE"
                 /\ UNCHANGED <<th, heap>>
     ELSE /\ th' = [th EXCEPT ![t].pc = "unlock_inline"]
          /\ UNCHANGED <<err, status, heap>>
  /\ UNCHANGED <<sh, fs, argv, settings, ts, mutex, mainv, out, opened, joined>>

\* threadRef->isAvailable = FALSE
StartMark(t) ==
  /\ Running /\ th[t].pc = "mark"
  /\ ts' = SetAvailable(ts, th[t].slot, FALSE)
  /\ th' = [th EXCEPT ![t].pc = "create"]
  /\ UNCHANGED <<sh, fs, argv, heap, settings, mutex, mainv, out, err, opened, joined, status>>

\* the thread pthread_create starts: runVisitThread on the copied context
NewThread(child, slot) ==
  [pc |-> "opendir", stack |-> <<Frame(child.dir, child.path)>>,
   child |-> NoChild, slot |-> 0, threadSlot |-> slot]

\* startVisitThread without the assertion on pthread_create's status
StartCreate_StatusIgnored(t) ==
  /\ Running /\ th[t].pc = "create"
  /\ \E created \in BOOLEAN :
       IF created
       THEN /\ ts' = SetThread(AddAvailable(ts, -1), th[t].slot, th[t].child.dir)
            /\ th' = [th EXCEPT ![t].pc = "unlock_created",
                                ![th[t].child.dir] = NewThread(th[t].child, th[t].slot)]
            /\ heap' = [heap EXCEPT ![th[t].child.dir].thread = th[t].child.dir]
       ELSE /\ ts' = AddAvailable(ts, -1)
            /\ th' = [th EXCEPT ![t].pc = "unlock_created"]
            /\ UNCHANGED heap
  /\ UNCHANGED <<sh, fs, argv, settings, mutex, mainv, out, err, opened, joined, status>>

\* availableThreadCount -= 1 and pthread_create, which writes the thread
\* field of the slot; a status other than 0 ends the process
StartCreate(t) ==
  /\ Running /\ th[t].pc = "create"
  /\ \E created \in BOOLEAN :
       IF created
       THEN /\ ts' = SetThread(AddAvailable(ts, -1), th[t].slot, th[t].child.dir)
            /\ th' = [th EXCEPT ![t].pc = "unlock_created",
                                ![th[t].child.dir] = NewThread(th[t].child, th[t].slot)]
            /\ heap' = [heap EXCEPT ![th[t].child.dir].thread = th[t].child.dir]
            /\ UNCHANGED <<err, status>>
       ELSE /\ ts' = AddAvailable(ts, -1)
            /\ err' = err \cup {Diag("ErrorCreatingThread", -1)}
            /\ status' = "EXIT_FAILURE"
            /\ UNCHANGED <<th, heap>>
  /\ UNCHANGED <<sh, fs, argv, settings, mutex, mainv, out, opened, joined>>

\* startVisitThread returning after pthread_create without the unlock
StartUnlockCreated_StillLocked(t) ==
  /\ Running /\ th[t].pc = "unlock_created"
  /\ heap' = [heap EXCEPT ![th[t].child.dir] = ReadByMaker(@)]
  /\ th' = [th EXCEPT ![t].pc = "readdir", ![t].child = NoChild]
  /\ UNCHANGED <<sh, fs, argv, settings, ts, mutex, mainv, out, err, opened, joined, status>>

\* the log message about the started thread, whose argument is read through
\* threadContext, then pthread_mutex_unlock and return: the caller goes on
\* with its readdir loop
StartUnlockCreated(t) ==
  /\ Running /\ th[t].pc = "unlock_created"
  /\ heap' = [heap EXCEPT ![th[t].child.dir] = ReadByMaker(@)]
  /\ mutex' = Unlocked
  /\ th' = [th EXCEPT ![t].pc = "readdir", ![t].child = NoChild]
  /\ UNCHANGED <<sh, fs, argv, settings, ts, mainv, out, err, opened, joined, status>>

\* VisitInCurrentThread without the unlock
StartUnlockInline_StillLocked(t) ==
  /\ Running /\ th[t].pc = "unlock_inline"
  /\ th' = [th EXCEPT ![t].pc = "opendir", ![t].child = NoChild,
                      ![t].stack = Append(@, Frame(th[t].child.dir, th[t].child.path))]
  /\ UNCHANGED <<sh, fs, argv, heap, settings, ts, mutex, mainv, out, err, opened, joined, status>>

\* VisitInCurrentThread without the call of visitDir
StartUnlockInline_NotVisited(t) ==
  /\ Running /\ th[t].pc = "unlock_inline"
  /\ mutex' = Unlocked
  /\ th' = [th EXCEPT ![t].pc = "readdir", ![t].child = NoChild]
  /\ UNCHANGED <<sh, fs, argv, heap, settings, ts, mainv, out, err, opened, joined, status>>

\* VisitInCurrentThread: pthread_mutex_unlock, then visitDir(context)
StartUnlockInline(t) ==
  /\ Running /\ th[t].pc = "unlock_inline"
  /\ mutex' = Unlocked
  /\ th' = [th EXCEPT ![t].pc = "opendir", ![t].child = NoChild,
                      ![t].stack = Append(@, Frame(th[t].child.dir, th[t].child.path))]
  /\ UNCHANGED <<sh, fs, argv, heap, settings, ts, mainv, out, err, opened, joined, status>>

\* ------------------------------------------------------------------------
\* runVisitThread, after visitDir has returned

RunLock(t) ==
  /\ Running /\ th[t].pc = "rel_lock"
  /\ CanLock(t)
  /\ mutex' = Locked(t)
  /\ th' = [th EXCEPT ![t].pc = "rel_count"]
  /\ UNCHANGED <<sh, fs, argv, heap, settings, ts, mainv, out, err, opened, joined, status>>

\* availableThreadCount += 1
RunCount(t) ==
  /\ Running /\ th[t].pc = "rel_count"
  /\ ts' = AddAvailable(ts, 1)
  /\ th' = [th EXCEPT ![t].pc = "rel_mark"]
  /\ UNCHANGED <<sh, fs, argv, heap, settings, mutex, mainv, out, err, opened, joined, status>>

\* runVisitThread without the assignment of isAvailable
RunMark_FlagLeft(t) ==
  /\ Running /\ th[t].pc = "rel_mark"
  /\ th' = [th EXCEPT ![t].pc = "rel_unlock"]
  /\ UNCHANGED <<sh, fs, argv, heap, settings, ts, mutex, mainv, out, err, opened, joined, status>>

\* ref->isAvailable = TRUE
RunMark(t) ==
  /\ Running /\ th[t].pc = "rel_mark"
  /\ ts' = SetAvailable(ts, th[t].threadSlot, TRUE)
  /\ th' = [th EXCEPT ![t].pc = "rel_unlock"]
  /\ UNCHANGED <<sh, fs, argv, heap, settings, mutex, mainv, out, err, opened, joined, status>>

RunUnlock(t) ==
  /\ Running /\ th[t].pc = "rel_unlock"
  /\ mutex' = Unlocked
  /\ th' = [th EXCEPT ![t].pc = "free"]
  /\ UNCHANGED <<sh, fs, argv, heap, settings, ts, mainv, out, err, opened, joined, status>>

\* safefree(context); pthread_exit(NULL)
RunExit(t) ==
  /\ Running /\ th[t].pc = "free"
  /\ th' = [th EXCEPT ![t].pc = "terminated"]
  /\ heap' = [heap EXCEPT ![t] = Freed(@)]
  /\ UNCHANGED <<sh, fs, argv, settings, ts, mutex, mainv, out, err, opened, joined, status>>

\* ------------------------------------------------------------------------
\* main, after visitDir has returned

\* one turn of the join loop: the slot is read without the mutex
MainJoinLoop ==
  /\ Running /\ th[Main].pc = "join"
  /\ IF mainv.slot < ts.threadCapacity
     THEN IF ~Ref(ts, mainv.slot).isAvailable
          THEN /\ mainv' = [mainv EXCEPT !.thread = Ref(ts, mainv.slot).thread]
               /\ th' = [th EXCEPT ![Main].pc = "pthread_join"]
          ELSE /\ mainv' = [mainv EXCEPT !.slot = mainv.slot + 1]
               /\ UNCHANGED th
     ELSE /\ th' = [th EXCEPT ![Main].pc = "destroy"]
          /\ UNCHANGED mainv
  /\ UNCHANGED <<sh, fs, argv, heap, settings, ts, mutex, out, err, opened, joined, status>>

\* no thread id is taken as one that can be waited for
Joinable_Never(id) == FALSE

\* the thread id read from the slot names a thread that can be joined
Joinable(id) == id # NoThread /\ id \notin joined

\* pthread_join(thread, NULL): returns once the thread has terminated.  For
\* an id pthread_create never wrote, or one joined before, the behaviour is
\* undefined: the call returns an error at once or the process dies
MainJoin ==
  /\ Running /\ th[Main].pc = "pthread_join"
  /\ IF Joinable(mainv.thread)
     THEN /\ th[mainv.thread].pc = "terminated"
          /\ joined' = joined \cup {mainv.thread}
          /\ mainv' = [mainv EXCEPT !.slot = mainv.slot + 1]
          /\ th' = [th EXCEPT ![Main].pc = "join"]
          /\ UNCHANGED status
     ELSE \E outcome \in {"returns", "crashes"} :
            IF outcome = "returns"
            THEN /\ mainv' = [mainv EXCEPT !.slot = mainv.slot + 1]
                 /\ th' = [th EXCEPT ![Main].pc = "join"]
                 /\ UNCHANGED <<joined, status>>
            ELSE /\ status' = "SIGSEGV"
                 /\ UNCHANGED <<joined, mainv, th>>
  /\ UNCHANGED <<sh, fs, argv, heap, settings, ts, mutex, out, err, opened>>

\* destroyThreadState: destroying a mutex that a thread holds is undefined;
\* it fails with EBUSY (the assertion then ends the process) or goes through
MainDestroy ==
  /\ Running /\ th[Main].pc = "destroy"
  /\ \E busy \in IF mutex.owner = NoThread THEN {FALSE} ELSE BOOLEAN :
       IF busy
       THEN /\ err' = err \cup {Diag("CouldNotDestroyMutex", -1)}
            /\ status' = "EXIT_FAILURE"
            /\ UNCHANGED th
       ELSE /\ th' = [th EXCEPT ![Main].pc = "Finally"]
            /\ UNCHANGED <<err, status>>
  /\ UNCHANGED <<sh, fs, argv, heap, settings, ts, mutex, mainv, out, opened, joined>>

\* Finally: exit(exitCode) ends the process and every thread of it
MainFinally ==
  /\ Running /\ th[Main].pc = "Finally"
  /\ status' = mainv.exitCode
  /\ UNCHANGED <<sh, fs, argv, heap, settings, ts, mutex, th, mainv, out, err, opened, joined>>

\* ------------------------------------------------------------------------

Next ==
  \/ MainGetopt \/ MainPattern \/ MainLstat \/ MainIsDir
  \/ MainJoinLoop \/ MainJoin \/ MainDestroy \/ MainFinally
  \/ \E t \in Tids :
       \/ OpenDir(t) \/ CloseDirNull(t)
       \/ VisitFile(t) \/ VisitSubDir(t) \/ VisitOther(t) \/ VisitReturn(t)
       \/ StartLock(t) \/ StartCheck(t) \/ StartMark(t) \/ StartCreate(t)
       \/ StartUnlockCreated(t) \/ StartUnlockInline(t)
       \/ RunLock(t) \/ RunCount(t) \/ RunMark(t) \/ RunUnlock(t) \/ RunExit(t)

Spec == Init /\ [][Next]_vars

\* The runs with matches printed, recursion and a pattern, for every
\* capacity from none to MaxCap, under a scheduler that does not stop
\* while some thread of the running process can take a step.
FairInit ==
  /\ Init
  /\ argv \in {<<OptR, OptP(<<"*">>)>>}
               \cup {<<OptT(n), OptR, OptP(<<"*">>)>> : n \in 1..MaxCap}

FairSpec == FairInit /\ [][Next]_vars /\ WF_vars(Next)


\* ------------------------------------------------------------------------
\* my-shell (module5/my-shell.c; module6 has the same code split over
\* my-shell.h, my-shell.c, my-shell-main.c and my-util.c)

\* bounds of the shell model: the lines on the input stream, and the reads
\* that find the stream at its end
MaxLines == 2
MaxEmpty == 2

MAX_CMD_LINE_LEN == 512
MAX_CMD_NAME_LEN == 64
MAX_ARGS == 129
MAX_ARG_LEN == 64
ARG_DELIM == " "
CMD_EXIT == <<"e", "x", "i", "t">>
EXIT_SUCCESS == 0
EXIT_FAILURE == 1
\* width of an exit status; lineNumber and argCount are uint32_t and stay
\* far below 2^32 on the streams of this model
EXIT_STATUS_WIDTH == 256

\* a line of n one-letter words separated by single delimiters
Words(n) == [i \in 1..(2 * n - 1) |-> IF i % 2 = 1 THEN "a" ELSE ARG_DELIM]

\* the lines read from the input stream, without their end of line; all
\* are shorter than MAX_CMD_LINE_LEN and their words shorter than MAX_ARG_LEN
ShellLines ==
  {Words(n) : n \in {1, 2, MAX_ARG_LEN - 1, MAX_ARG_LEN, MAX_ARGS - 1}}
    \cup {CMD_EXIT, <<>>, <<ARG_DELIM>>,
          <<ARG_DELIM, "a", ARG_DELIM, ARG_DELIM, "a">>}

RECURSIVE ShellStreams(_)
ShellStreams(n) ==
  IF n = 0 THEN {<<>>}
  ELSE ShellStreams(n - 1)
         \cup {Append(q, l) : q \in ShellStreams(n - 1), l \in ShellLines}

\* what the cmdLine array of main may hold before the first fgets
Garbage == {<<>>, <<"a", ARG_DELIM, "a">>}

\* the wait statuses of a child: exit(0), exit(1), exit(127), killed by
\* SIGKILL
WaitStatuses == {0, 256, 32512, 9}

\* strtok(.., ARG_DELIM) called until it returns NULL on the string in the
\* buffer: the tokens in order, each a longest run without delimiter
TokenStarts(str) ==
  {i \in DOMAIN str : str[i] # ARG_DELIM /\ (i = 1 \/ str[i - 1] = ARG_DELIM)}

TokenEnd(str, b) ==
  CHOOSE e \in b..Len(str) :
    /\ \A i \in b..e : str[i] # ARG_DELIM
    /\ e = Len(str) \/ str[e + 1] = ARG_DELIM

Tokens(str) ==
  LET starts == TokenStarts(str)
      nth(k) == CHOOSE i \in starts : Cardinality({j \in starts : j <= i}) = k
  IN [k \in 1..Cardinality(starts) |-> SubSeq(str, nth(k), TokenEnd(str, nth(k)))]

\* the string the buffer holds after strtok has cut it: the first token
\* with the delimiters before it (strtok writes a NUL after each token)
AfterStrtok(str) ==
  LET starts == TokenStarts(str)
  IN IF starts = {} THEN str
     ELSE LET b == CHOOSE i \in starts : \A j \in starts : i <= j
          IN SubSeq(str, 1, TokenEnd(str, b))

\* strncpy(dst, src, n): at most n characters
Strncpy(src, n) == IF Len(src) < n THEN src ELSE SubSeq(src, 1, n)

\* fgets(buf, bufSz, ..) followed by the cut at the end of line
Fgets(line, bufSz) == Strncpy(line, bufSz - 1)

NoCommand == [name |-> <<>>, args |-> <<>>, argCount |-> 0, lineNumber |-> 0]

\* parseCommandLine: every token is counted after the assertion
\* tokenCount < MAX_ARG_LEN - 1; NULL for a line without token
parseCommandLine(cmdLine, lineNumber) ==
  LET tokens == Tokens(cmdLine)
  IN IF Len(tokens) > MAX_ARG_LEN - 1
     THEN [result |-> "abort", cmd |-> NoCommand]
     ELSE IF Len(tokens) = 0
     THEN [result |-> "NULL", cmd |-> NoCommand]
     ELSE [result |-> "cmd",
           cmd |-> [name |-> Strncpy(tokens[1], MAX_CMD_NAME_LEN),
                    args |-> [i \in DOMAIN tokens |-> Strncpy(tokens[i], MAX_ARG_LEN)],
                    argCount |-> Len(tokens),
                    lineNumber |-> lineNumber]]

\* _exit(code) of the shell
ShellExit(code, msg) ==
  [sh EXCEPT !.pc = "exited", !.exitCode = code % EXIT_STATUS_WIDTH,
             !.err = IF msg = "" THEN @ ELSE Append(@, msg)]

\* main up to the loop: cmdLine is not initialised, lineNumber is 0, input
\* has not returned an InputState yet
ShellInit ==
  /\ \E stream \in ShellStreams(MaxLines), garbage \in Garbage :
       sh = [pc |-> "input", stream |-> stream, cmdLine |-> garbage,
             lineNumber |-> 0, cmd |-> NoCommand, empties |-> 0,
             state |-> "NONE",
             exitCode |-> -1, err |-> <<>>, executed |-> <<>>]
  /\ fs = FsNotDir
  /\ argv = <<>>
  /\ settings = newSettings
  /\ ts = newThreadState(RawThreadState, 0)
  /\ mutex = [owner |-> NoThread, count |-> 0]
  /\ th = [t \in Tids |-> IdleThread]
  /\ mainv = [optind |-> 1, exitCode |-> "EXIT_SUCCESS", slot |-> 0,
              thread |-> NoThread]
  /\ out = <<>>
  /\ err = {}
  /\ opened = {}
  /\ joined = {}
  /\ status = "off"
  /\ heap = [c \in Tids |-> NoContext]

findVars == <<fs, argv, settings, ts, mutex, th, mainv, out, err, opened, joined, status, heap>>

\* input(): fgets reads the next line into the buffer (NOT_EMPTY), or finds
\* the end of the stream and leaves the buffer as it is (EMPTY), or the
\* alarm goes off first (TIMED_OUT), which ends the loop and the shell;
\* after the other two main counts the line
ShellInput ==
  /\ sh.pc = "input"
  /\ \E state \in {"NOT_EMPTY", "EMPTY", "TIMED_OUT"} :
       CASE state = "NOT_EMPTY" ->
              /\ sh.stream # <<>>
              /\ sh' = [sh EXCEPT !.cmdLine = Fgets(Head(sh.stream), MAX_CMD_LINE_LEN),
                                  !.stream = Tail(@),
                                  !.state = state,
                                  !.lineNumber = @ + 1,
                                  !.pc = "parse"]
         [] state = "EMPTY" ->
              /\ sh.stream = <<>> /\ sh.empties < MaxEmpty
              /\ sh' = [sh EXCEPT !.empties = @ + 1,
                                  !.state = state,
                                  !.lineNumber = @ + 1,
                                  !.pc = "parse"]
         [] state = "TIMED_OUT" ->
              sh' = [ShellExit(EXIT_SUCCESS, "NoActivity") EXCEPT !.state = state]
  /\ UNCHANGED findVars

\* parseCommandLine on the buffer, which strtok cuts; NULL is answered with
\* a message, a failed safeMalloc or assertion ends the shell
ShellParse ==
  /\ sh.pc = "parse"
  /\ \E allocated \in BOOLEAN :
       IF ~allocated
       THEN sh' = ShellExit(EXIT_FAILURE, "CouldNotAllocate")
       ELSE LET parsed == parseCommandLine(sh.cmdLine, sh.lineNumber)
            IN CASE parsed.result = "abort" ->
                      sh' = [ShellExit(EXIT_FAILURE, "TooManyArguments")
                               EXCEPT !.cmdLine = AfterStrtok(sh.cmdLine)]
                 [] parsed.result = "NULL" ->
                      sh' = [sh EXCEPT !.err = Append(@, "NoCommand"),
                                       !.cmd = NoCommand,
                                       !.pc = "input"]
                 [] parsed.result = "cmd" ->
                      sh' = [sh EXCEPT !.cmd = parsed.cmd,
                                       !.cmdLine = AfterStrtok(sh.cmdLine),
                                       !.pc = "execute"]
  /\ UNCHANGED findVars

\* executeCommand: exit ends the shell; otherwise fork and wait.  The child
\* calls execvp with cmd->args, an array of character arrays, cast to an
\* array of pointers, which has no defined behaviour: the program runs, or
\* execvp fails and the child goes on as a second shell on the same stream,
\* reading lines from it, until it exits.  The shell gets a wait status and
\* exits with it when it is not 0.
ShellExecute ==
  /\ sh.pc = "execute"
  /\ IF sh.cmd.name = CMD_EXIT
     THEN sh' = ShellExit(EXIT_SUCCESS, "")
     ELSE \E forked \in BOOLEAN :
            IF ~forked
            THEN sh' = ShellExit(EXIT_FAILURE, "CouldNotFork")
            ELSE \E childStatus \in WaitStatuses, taken \in 0..Len(sh.stream) :
                   LET ran == [sh EXCEPT
                                 !.executed = Append(@, [name |-> sh.cmd.name,
                                                         lineNumber |-> sh.cmd.lineNumber,
                                                         childStatus |-> childStatus]),
                                 !.stream = SubSeq(@, taken + 1, Len(@)),
                                 !.cmd = NoCommand]
                   IN IF childStatus # 0
                      THEN sh' = [ran EXCEPT !.pc = "exited",
                                             !.exitCode = childStatus % EXIT_STATUS_WIDTH]
                      ELSE sh' = [ran EXCEPT !.pc = "input"]
  /\ UNCHANGED findVars

ShellNext == ShellInput \/ ShellParse \/ ShellExecute

ShellSpec == ShellInit /\ [][ShellNext]_vars

\* ------------------------------------------------------------------------
\* Vocabulary of the properties

Slots == 0..(ts.threadCapacity - 1)
FreeSlots == {s \in Slots : Ref(ts, s).isAvailable}
BusySlots == Slots \ FreeSlots
Workers == Tids \ {Main}

\* the thread is inside visitDir or startVisitThread
Traversing(t) ==
  th[t].pc \in {"opendir", "closedir_null", "readdir", "lock", "check", "mark",
                "create", "unlock_created", "unlock_inline"}

\* the worker has been created and has not yet set its slot available again
HoldsSlot(t) == Traversing(t) \/ th[t].pc \in {"rel_lock", "rel_count", "rel_mark"}

SlotHolders == {t \in Workers : HoldsSlot(t)}

\* main has left the join loop and destroyThreadState has run
TornDown == th[Main].pc = "Finally" /\ Main \in opened

IsPrefix(a, b) == Len(a) <= Len(b) /\ a = SubSeq(b, 1, Len(a))
Count(seq, x) == Cardinality({i \in DOMAIN seq : seq[i] = x})
Range(seq) == {seq[i] : i \in DOMAIN seq}

\* the paths of the regular files and symlinks whose name matches the
\* pattern, in depth-first order: the entries of dir from pos on, the
\* content of a subdirectory in place of its entry
RECURSIVE MatchesFrom(_, _, _)
MatchesFrom(dir, path, pos) ==
  IF dir \in fs.unreadable \/ pos > Len(fs.dirs[dir]) THEN <<>>
  ELSE LET e == fs.dirs[dir][pos]
           here == IF e.type \in {"DT_REG", "DT_LNK"}
                   THEN IF fnmatch(settings.pattern, e.name)
                        THEN <<path \o <<e.name>>>> ELSE <<>>
                   ELSE IF e.type = "DT_DIR" /\ e.node >= 0 /\ settings.isRecursive
                        THEN MatchesFrom(e.node, path \o <<e.name>>, 1)
                        ELSE <<>>
       IN here \o MatchesFrom(dir, path, pos + 1)

MatchingFiles == MatchesFrom(Main, RootPath, 1)

\* what the run with capacity 0 writes to stdout
InlineOutput ==
  IF logIt(settings.systemLogLevel, NORMAL) THEN MatchingFiles ELSE <<>>

\* the options ask for a traversal: no -h, known log levels, positive
\* capacities and a pattern
ValidOptions ==
  /\ \A i \in DOMAIN argv :
       /\ argv[i].o # "h"
       /\ argv[i].o = "l" => LogLevelOf(argv[i].v) >= 0
       /\ argv[i].o = "t" => argv[i].v > 0
  /\ \E i \in DOMAIN argv : argv[i].o = "p" /\ argv[i].v # <<>>

\* no -p on the command line
PatternOmitted == \A i \in DOMAIN argv : argv[i].o # "p"

\* no -h, known log levels and positive capacities
OptionsWellFormed ==
  \A i \in DOMAIN argv :
     /\ argv[i].o # "h"
     /\ argv[i].o = "l" => LogLevelOf(argv[i].v) >= 0
     /\ argv[i].o = "t" => argv[i].v > 0

\* the subdirectories readdir yields in directory d
ChildDirs(d) ==
  IF d \in fs.unreadable THEN {}
  ELSE {fs.dirs[d][i].node :
          i \in {j \in DOMAIN fs.dirs[d] :
                   fs.dirs[d][j].type = "DT_DIR" /\ fs.dirs[d][j].node >= 0}}

\* a worker was created for directory c
Handed(c) == th[c].pc # "none"

\* the visitDir call on directory c has been made and has returned
Done(c) ==
  /\ c \in opened
  /\ \A u \in Tids : \A k \in DOMAIN th[u].stack : th[u].stack[k].dir # c

\* the worker created for directory c has left visitDir
WalkOver(c) == Handed(c) /\ ~Traversing(c)

\* the number of entries of frame k of thread t whose handling is over:
\* the entry before the readdir position is still being dispatched, or
\* visited inline by the frame above, unless the thread is at readdir in
\* this frame
HandledEntries(t, k) ==
  IF k = Len(th[t].stack) /\ th[t].pc = "readdir"
  THEN th[t].stack[k].pos - 1
  ELSE th[t].stack[k].pos - 2

\* the directories for which a startVisitThread call of thread t, made by
\* a visitDir call that is still running, has returned
ReturnedDirs(t) ==
  {c \in Tids :
     \E k \in DOMAIN th[t].stack : \E i \in 1..HandledEntries(t, k) :
        LET e == fs.dirs[th[t].stack[k].dir][i]
        IN e.type = "DT_DIR" /\ e.node = c /\ Descends(settings, e.name)}

\* directory c and everything below it has been traversed, by the visitDir
\* call on c itself or by workers whose walk is over
RECURSIVE Finished(_)
Finished(c) ==
  /\ IF Handed(c) THEN WalkOver(c) ELSE Done(c)
  /\ \A g \in ChildDirs(c) : Finished(g)

\* directory c has a worker, or it has been traversed by a visitDir call
\* that returned and the same holds of every subdirectory of it
RECURSIVE Settled(_)
Settled(c) ==
  Handed(c) \/ (Done(c) /\ \A g \in ChildDirs(c) : Settled(g))

\* the worker has set its slot available again
Released(w) == th[w].pc \in {"rel_unlock", "free", "terminated"}

\* a step that sets a flag of a busy slot, or raises the count after the
\* options have been read, is the step of runVisitThread of the worker that
\* holds the slot, taken when its visitDir call has returned; a worker does
\* it once; main is never in the release part of runVisitThread
ReleaseDiscipline ==
  /\ \A s \in Slots :
       (~Ref(ts, s).isAvailable /\ Ref(ts', s).isAvailable) =>
          \E w \in Workers :
             /\ RunMark(w) /\ th[w].threadSlot = s /\ th[w].stack = <<>>
             /\ {v \in SlotHolders : th[v].threadSlot = s} = {w}
  /\ (th[Main].pc # "getopt"
        /\ ts'.availableThreadCount > ts.availableThreadCount) =>
          \E w \in Workers : RunCount(w) /\ th[w].stack = <<>>
  /\ \A w \in Workers : Released(w) => Released(w)' /\ ~RunMark(w)
  /\ th'[Main].pc \notin {"rel_lock", "rel_count", "rel_mark", "rel_unlock"}

\* the value of the last -t of the command line, 0 when there is none
LastCapacityGiven ==
  LET given == {i \in DOMAIN argv : argv[i].o = "t"}
  IN IF given = {} THEN 0
     ELSE argv[CHOOSE i \in given : \A j \in given : j <= i].v

\* every -t value is a capacity newThreadState takes as it is
CapacitiesPermitted ==
  \A i \in DOMAIN argv : argv[i].o = "t" => argv[i].v \in 1..MAX_THREADS

\* ------------------------------------------------------------------------
\* Properties

\* C1: once main has left the join loop and torn the pool state down, no
\* slot is busy and no worker is still traversing.
C1_NoSlotBusyAfterJoin ==
  TornDown => BusySlots = {} /\ \A t \in Workers : ~Traversing(t)

\* C2: when the process exits after the traversal, every matching file has
\* been written exactly as many times as by the inline run (once), whatever
\* the capacity and the interleaving.
C2_SameMatchesForEveryCapacity ==
  (status = "EXIT_SUCCESS" /\ Main \in opened) =>
     \A line \in Range(out) \cup Range(InlineOutput) :
        Count(out, line) = Count(InlineOutput, line)

\* C3: whenever no thread holds the mutex, availableThreadCount is the
\* number of slots below the capacity whose isAvailable is set, and
\* together with the number of busy slots it makes the capacity.
C3_CountMatchesFreeSlots ==
  mutex.owner = NoThread =>
     /\ ts.availableThreadCount = Cardinality(FreeSlots)
     /\ ts.availableThreadCount + Cardinality(BusySlots) = ts.threadCapacity

C3_Witness ==
  /\ Running /\ mutex.owner = NoThread
  /\ BusySlots # {} /\ FreeSlots # {}
  /\ \E t \in Workers : th[t].pc = "terminated"

\* C4: a slot is never held twice: between the marking of a slot and the
\* release by the worker created for it, no other dispatch takes the slot.
C4_SlotsAcquiredExclusively ==
  \A s \in Slots :
     Cardinality({t \in SlotHolders : th[t].threadSlot = s})
       + Cardinality({t \in Tids : th[t].pc = "create" /\ th[t].slot = s}) <= 1

C4_Witness ==
  \E t \in Tids, u \in Workers, v \in Workers :
     /\ th[t].pc = "create"
     /\ HoldsSlot(u) /\ th[u].threadSlot # th[t].slot
     /\ th[v].pc = "terminated" /\ th[v].threadSlot = th[t].slot

\* C5: the workers that hold a slot are never more than the capacity, and a
\* thread that finds every slot busy in startVisitThread creates no worker
\* and goes on to visit the subdirectory itself, as its next visitDir call.
C5_WorkersBoundedInlineWhenFull ==
  [][/\ Cardinality(SlotHolders') <= ts'.threadCapacity
     /\ \A t \in Tids :
          /\ (StartCheck(t) /\ BusySlots = Slots) =>
                /\ th'[t].pc = "unlock_inline"
                /\ th'[t].child = th[t].child
                /\ \A w \in Workers : th'[w] = th[w] \/ w = t
                /\ status' = status
          /\ StartUnlockInline(t) =>
                /\ th'[t].pc = "opendir"
                /\ th'[t].stack =
                     Append(th[t].stack, Frame(th[t].child.dir, th[t].child.path))
                /\ \A w \in Workers : th'[w] = th[w] \/ w = t]_vars

C5_Witness ==
  /\ ts.threadCapacity > 0 /\ BusySlots = Slots
  /\ Cardinality(SlotHolders) = ts.threadCapacity
  /\ \E t \in Tids : th[t].pc = "opendir" /\ Len(th[t].stack) > 1

\* C6: with capacity 0 and a log level that prints matches, no worker is
\* ever created, what has been written is at every moment the beginning of
\* the depth-first list of the matching files, and all of it at the end.
C6_InlineDepthFirst ==
  (ts.threadCapacity = 0 /\ logIt(settings.systemLogLevel, NORMAL)) =>
     /\ \A t \in Workers : th[t].pc = "none"
     /\ IsPrefix(out, MatchingFiles)
     /\ TornDown => out = MatchingFiles

C6_Witness ==
  /\ ts.threadCapacity = 0 /\ TornDown /\ settings.isRecursive
  /\ fs = FsMixed /\ Len(out) = 3
  /\ settings.pattern = <<"*", ".", "t">>

\* C7: the run never gets past a -t option whose value is above
\* MAX_THREADS: it ends there in failure with the capacity diagnostic.
C7_OverCapacityRejected ==
  \A i \in DOMAIN argv :
     (argv[i].o = "t" /\ argv[i].v > MAX_THREADS) =>
        /\ mainv.optind <= i
        /\ (mainv.optind = i /\ ~Running) =>
              status = "EXIT_FAILURE" /\ Diag("CapacityAboveMax", -1) \in err

\* C8: when opendir fails on the root, nothing is written to stdout and the
\* process does not end with EXIT_SUCCESS.
C8_UnreadableRootFails ==
  (Main \in fs.unreadable /\ Main \in opened) =>
     /\ out = <<>>
     /\ status # "EXIT_SUCCESS"

\* C9: a failed opendir on a directory other than the root only ends that
\* visitDir call: nothing is written, the process keeps running and the
\* thread goes on in the caller (the readdir loop of the parent directory,
\* or the release of the slot in runVisitThread).
C9_OpenFailureIsLocal ==
  [][\A t \in Tids :
       (CloseDirNull(t) /\ Top(t).dir # Main) =>
          /\ status' = "running"
          /\ out' = out
          /\ th'[t].stack = Pop(th[t].stack)
          /\ th'[t].pc = AfterVisit(t, Pop(th[t].stack))]_vars

\* C10: when the path is not a directory, no directory is ever opened, no
\* slot is taken and no worker exists; with options that ask for a
\* traversal the process ends with EXIT_FAILURE, after the not-found
\* message for a missing path and the invalid-type message for a path of
\* another type (when the log level prints errors).
C10_BadRootPathFails ==
  /\ fs.kind # "dir" =>
        /\ opened = {}
        /\ BusySlots = {} /\ ts.availableThreadCount = ts.threadCapacity
        /\ \A t \in Workers : th[t].pc = "none"
  /\ (ValidOptions /\ ~Running /\ fs.kind \in {"ENOENT", "file"}) =>
        /\ status = "EXIT_FAILURE"
        /\ err = IF logIt(settings.systemLogLevel, ERROR)
                 THEN {Diag(IF fs.kind = "ENOENT" THEN "NotFound"
                            ELSE "InvalidType", -1)}
                 ELSE {}

C10_Witness ==
  /\ fs.kind = "file" /\ status = "EXIT_FAILURE"
  /\ Diag("InvalidType", -1) \in err
  /\ ts.threadCapacity = MaxCap

C12_PatternDefaultsToStar ==
  (PatternOmitted /\ OptionsWellFormed) =>
     /\ th[Main].pc # "getopt" => settings.pattern = <<"*">>
     /\ (~Running /\ fs.kind = "dir") => Main \in opened

\* C13: the step of startVisitThread that calls pthread_create on a marked
\* slot either starts the worker of the subdirectory, whose id is written
\* to the slot, or ends the process with EXIT_FAILURE and the diagnostic of
\* the failed creation; after that diagnostic the process is never running
\* and never ends in another way.
C13_CreationFailureAborts ==
  [][/\ \A t \in Tids :
          StartCreate(t) =>
             \/ /\ th'[th[t].child.dir].pc = "opendir"
                /\ th'[th[t].child.dir].stack[1].dir = th[t].child.dir
                /\ Ref(ts', th[t].slot).thread = th[t].child.dir
                /\ status' = status
             \/ /\ status' = "EXIT_FAILURE"
                /\ Diag("ErrorCreatingThread", -1) \in err'
     /\ Diag("ErrorCreatingThread", -1) \in err =>
          status = "EXIT_FAILURE" /\ status' = "EXIT_FAILURE"]_vars

C13_Witness ==
  /\ status = "EXIT_FAILURE"
  /\ Diag("ErrorCreatingThread", -1) \in err
  /\ \E t \in Workers :
       /\ th[t].pc = "create"
       /\ ~Ref(ts, th[t].slot).isAvailable
       /\ th[th[t].child.dir].pc = "none"
       /\ th[t].child.dir \notin opened

\* C14: while recursion is disabled no directory but the root is opened, no
\* thread is inside startVisitThread, no slot is busy, no worker exists and
\* availableThreadCount equals the capacity.
C14_NoRecursionStaysInRoot ==
  ~settings.isRecursive =>
     /\ opened \subseteq {Main}
     /\ \A t \in Tids :
          /\ Len(th[t].stack) <= 1
          /\ th[t].pc \notin {"lock", "check", "mark", "create",
                              "unlock_created", "unlock_inline"}
     /\ \A w \in Workers : th[w].pc = "none"
     /\ BusySlots = {}
     /\ ts.availableThreadCount = ts.threadCapacity

C14_Witness ==
  /\ ~settings.isRecursive /\ fs = FsMixed
  /\ ts.threadCapacity = MaxCap
  /\ status = "EXIT_SUCCESS" /\ TornDown
  /\ Len(out) = 2

\* C15: on root/{a.t, b.l, s/c.t} with pattern *.t, recursion on, capacity 2
\* and matches printed, stdout never holds a line twice nor a line that is
\* not one of r/a.t and r/s/c.t, and once main has left the join loop (so
\* whenever the process exits after the traversal) it holds exactly these
\* two lines.
C15_ScenarioMatches ==
  LET expected == {RootPath \o <<(<<"a", ".", "t">>)>>,
                   RootPath \o <<(<<"s">>), (<<"c", ".", "t">>)>>}
  IN (/\ fs = FsScenario /\ settings.pattern = <<"*", ".", "t">>
      /\ settings.isRecursive /\ ts.threadCapacity = 2
      /\ logIt(settings.systemLogLevel, NORMAL)) =>
        /\ Range(out) \subseteq expected
        /\ Len(out) = Cardinality(Range(out))
        /\ th[Main].pc \in {"destroy", "Finally"} => Range(out) = expected

C15_Witness ==
  /\ fs = FsScenario /\ settings.pattern = <<"*", ".", "t">>
  /\ settings.isRecursive /\ ts.threadCapacity = 2
  /\ status = "EXIT_SUCCESS" /\ Len(out) = 2
  /\ \E w \in Workers : w \in joined

\* C16 as stated: when a startVisitThread call that ran the subdirectory in
\* the calling thread has returned, the subdirectory and every directory
\* below it has been traversed, the walks of the workers created for
\* directories below it included.
C16_InlineWaitsForWholeSubtree ==
  \A t \in Tids : \A c \in ReturnedDirs(t) :
     ~Handed(c) => Done(c) /\ \A g \in ChildDirs(c) : Finished(g)

\* C16 amended: when a startVisitThread call that ran the subdirectory in
\* the calling thread has returned, the visitDir call on the subdirectory
\* has returned, and every directory below it either has a worker (which
\* may still be running) or has been traversed in the same way.
C16_InlineCoversUnhandedSubtree ==
  \A t \in Tids : \A c \in ReturnedDirs(t) :
     ~Handed(c) => Done(c) /\ \A g \in ChildDirs(c) : Settled(g)

C16_Witness ==
  \E t \in Tids : \E c \in ReturnedDirs(t) :
     /\ ~Handed(c) /\ Done(c)
     /\ \E g \in ChildDirs(c) : Handed(g) /\ Traversing(g) /\ g \notin opened

\* C17: whenever the join loop finds the slot it looks at busy and goes on
\* to pthread_join, the thread id it has read from the slot is the worker
\* that holds this slot now.
C17_JoinedHandleIsCurrentOccupant ==
  [][(MainJoinLoop /\ th'[Main].pc = "pthread_join") =>
        \E w \in Workers :
           /\ mainv'.thread = w
           /\ th[w].threadSlot = mainv.slot
           /\ HoldsSlot(w)]_vars

\* C18: every step that reads or writes an isAvailable flag, a thread field
\* of a slot or availableThreadCount, in startVisitThread, runVisitThread
\* and the join loop of main, is taken by the thread that owns the mutex.
C18_SharedStateUnderMutex ==
  [][/\ \A t \in Tids :
          (StartCheck(t) \/ StartMark(t) \/ StartCreate(t)
             \/ RunCount(t) \/ RunMark(t)) => mutex.owner = t
     /\ (MainJoinLoop /\ mainv.slot < ts.threadCapacity) =>
          mutex.owner = Main]_vars

\* C19 as stated: a thread that owns the mutex is not listing a directory
\* and is not about to call pthread_create.
C19_MutexNotHeldAcrossCreation ==
  \A t \in Tids :
     mutex.owner = t =>
        th[t].pc \notin {"opendir", "closedir_null", "readdir", "create"}

\* C19 amended: a thread owns the mutex only inside startVisitThread, from
\* the test of the count through the scan, the marking and pthread_create
\* to the unlock, or inside runVisitThread from the increment of the count
\* through the marking to the unlock; no thread that opens, reads or closes
\* a directory owns it.
C19_MutexHeldOnlyInPoolSteps ==
  /\ mutex.owner \in Tids \cup {NoThread}
  /\ \A t \in Tids :
       /\ mutex.owner = t =>
             th[t].pc \in {"check", "mark", "create", "unlock_created",
                           "unlock_inline", "rel_count", "rel_mark", "rel_unlock"}
       /\ th[t].pc \in {"opendir", "closedir_null", "readdir"} =>
             mutex.owner # t

C19_Witness ==
  \E t \in Tids, u \in Tids \ {Main} :
     /\ mutex.owner = t /\ th[t].pc = "unlock_created"
     /\ th[t].child.dir \in Workers /\ th[th[t].child.dir].pc = "opendir"
     /\ u # t /\ th[u].pc = "readdir"

\* C20: a slot is set available again only by the worker created for it,
\* once, after its visitDir call (inline subdirectories included) has
\* returned, never by main or inside an inline traversal; and every worker
\* that was given a slot has released it when the process exits with
\* EXIT_SUCCESS.
C20_EveryAcquisitionReleasedOnce ==
  [][/\ ReleaseDiscipline
     /\ status' = "EXIT_SUCCESS" =>
          \A w \in Workers : Handed(w) => Released(w)]_vars

\* C21: when main exits after the traversal, every worker that was created
\* has left visitDir and set its slot available again, and the directory it
\* was created for is traversed with everything below it.
C21_WorkersCompleteBeforeExit ==
  [][(MainFinally /\ Main \in opened) =>
        \A w \in Workers :
           Handed(w) => ~Traversing(w) /\ Released(w) /\ Finished(w)]_vars

\* C22: in startVisitThread, under the mutex and without giving it up in
\* between: with availableThreadCount > 0 the slot chosen is the free slot
\* of lowest index, the marking sets the flag of that slot and of no other,
\* and the count goes down by one; with availableThreadCount = 0 the
\* thread goes to the inline visit and the slot table and the count are
\* left as they are.
C22_AcquireLowestFreeSlot ==
  [][\A t \in Tids :
       /\ th[t].pc \in {"check", "mark", "create"} =>
             mutex.owner = t /\ (th'[t] # th[t] => mutex' = mutex)
       /\ (StartCheck(t) /\ ts.availableThreadCount > 0 /\ Running') =>
             /\ th'[t].pc = "mark"
             /\ th'[t].slot \in FreeSlots
             /\ \A r \in 0..(th'[t].slot - 1) : r \in BusySlots
             /\ ts' = ts
       /\ (StartCheck(t) /\ ts.availableThreadCount = 0) =>
             th'[t].pc = "unlock_inline" /\ ts' = ts
       /\ StartMark(t) =>
             /\ BusySlots' = BusySlots \cup {th[t].slot}
             /\ th[t].slot \notin BusySlots
             /\ ts'.availableThreadCount = ts.availableThreadCount
       /\ StartCreate(t) =>
             /\ ts'.availableThreadCount = ts.availableThreadCount - 1
             /\ BusySlots' = BusySlots
       /\ StartUnlockInline(t) => ts' = ts]_vars

C22_Witness ==
  \E t \in Workers, w \in Workers :
     /\ th[t].slot = 1 /\ th[t].threadSlot = 0
     /\ th[w].threadSlot = 1 /\ HoldsSlot(w) /\ HoldsSlot(t)
     /\ BusySlots = Slots /\ ts.availableThreadCount = 0
     /\ th[Main].pc = "unlock_inline"

\* C23: the capacity never exceeds MAX_THREADS, so SLOT_MAIN_THREAD is not
\* the index of a slot and the slot table, of MAX_THREADS cells, is never
\* indexed with it: the slot a thread marks or creates a worker for, the
\* slot a worker releases and the slot the join loop reads are all below
\* the capacity; main keeps SLOT_MAIN_THREAD as its slot, is never in the
\* release part of runVisitThread, and no worker has SLOT_MAIN_THREAD as
\* its slot.
C23_SentinelIsNoSlot ==
  /\ ts.threadCapacity <= MAX_THREADS
  /\ SLOT_MAIN_THREAD \notin Slots
  /\ Len(ts.threadRefs) <= MAX_THREADS
  /\ \A c \in 0..(UINT8 - 1) :
       CapacityAccepted(c) => SLOT_MAIN_THREAD \notin 0..(c - 1)
  /\ th[Main].threadSlot = SLOT_MAIN_THREAD
  /\ th[Main].pc \notin {"rel_lock", "rel_count", "rel_mark", "rel_unlock", "free"}
  /\ th[Main].pc = "pthread_join" => mainv.slot \in Slots
  /\ \A t \in Tids :
       /\ th[t].pc \in {"mark", "create", "unlock_created"} => th[t].slot \in Slots
       /\ th[t].pc \in {"rel_lock", "rel_count", "rel_mark"} =>
             th[t].threadSlot \in Slots /\ th[t].threadSlot # SLOT_MAIN_THREAD
       /\ (t # Main /\ Handed(t)) => th[t].threadSlot # SLOT_MAIN_THREAD

C23_Witness ==
  /\ ts.threadCapacity = MAX_THREADS
  /\ th[Main].pc = "join" /\ mainv.slot = MAX_THREADS - 1
  /\ th[Main].threadSlot = SLOT_MAIN_THREAD
  /\ Ref(ts, mainv.slot).isAvailable

C25_MakerLeavesHandedContext ==
  \A c \in Tids : heap[c].reads = 0

\* C26: the heap copy of a context is passed to free only by the worker it
\* was handed to, when that worker has set its slot available again, and
\* never twice; a worker that has terminated has freed its copy; once the
\* copy is freed its worker takes no further step, and the thread that made
\* the copy accesses it only while it is allocated.
C26_ContextFreedOnceByOwner ==
  [][\A c \in Tids :
       /\ heap[c].frees <= 1
       /\ (heap[c].state = "freed") = (heap[c].frees = 1)
       /\ (c # Main /\ th[c].pc = "terminated") = (heap[c].state = "freed")
       /\ heap'[c].frees # heap[c].frees =>
             /\ RunExit(c) /\ heap[c].thread = c /\ heap[c].state = "allocated"
             /\ Released(c) /\ th[c].stack = <<>>
             /\ heap'[c].frees = 1
       /\ heap[c].state = "freed" => th'[c] = th[c] /\ heap'[c] = heap[c]
       /\ \A t \in Tids :
            (th[t].child.dir = c /\ th[t].pc \in {"mark", "create", "unlock_created"}) =>
               heap[c].state = "allocated"]_vars

C26_Witness ==
  \E c \in Workers, w \in Workers :
     /\ heap[c].state = "freed" /\ heap[c].frees = 1 /\ th[c].pc = "terminated"
     /\ w # c /\ HoldsSlot(w) /\ th[w].threadSlot = th[c].threadSlot
     /\ heap[w].state = "allocated" /\ heap[w].thread = w

C28_CapacityFixedAfterOptions ==
  [][/\ ts'.threadCapacity # ts.threadCapacity =>
          /\ MainGetopt /\ opened = {}
          /\ ts' = newThreadState(ts, CastUint8(argv[mainv.optind].v))
     /\ th[Main].pc # "getopt" => ts'.threadCapacity = ts.threadCapacity
     /\ (th[Main].pc # "getopt" /\ OptionsWellFormed /\ CapacitiesPermitted) =>
          ts.threadCapacity = LastCapacityGiven
     /\ (th[Main].pc = "pattern" /\ OptionsWellFormed) =>
          /\ FreeSlots = Slots
          /\ ts.availableThreadCount = ts.threadCapacity]_vars

C28_Witness ==
  /\ \E i \in DOMAIN argv, j \in DOMAIN argv :
        i < j /\ argv[i].o = "t" /\ argv[j].o = "t" /\ argv[i].v > argv[j].v
  /\ ts.threadCapacity = LastCapacityGiven
  /\ Len(ts.threadRefs) > ts.threadCapacity
  /\ BusySlots = Slots /\ Slots # {}
  /\ th[Main].pc = "unlock_inline"

\* C29: a thread that tests availableThreadCount in startVisitThread and
\* finds it above 0 has a slot below the capacity whose isAvailable is set:
\* its scan does not end at threadCapacity.
C29_ScanFindsSlotWhenCountPositive ==
  \A t \in Tids :
     (th[t].pc = "check" /\ ts.availableThreadCount > 0) =>
        /\ FreeSlots # {}
        /\ FindSlot(ts) \in FreeSlots
        /\ FindSlot(ts) # ts.threadCapacity

C29_Witness ==
  \E t \in Workers :
     /\ th[t].pc = "check" /\ mutex.owner = t
     /\ ts.availableThreadCount > 0
     /\ FindSlot(ts) > 0
     /\ \E w \in Workers : th[w].pc = "terminated"

\* C30: parseCommandLine, on a buffer that holds from 1 to MAX_ARGS - 1
\* tokens, returns a Command with that many arguments and the shell goes on
\* to execute it, unless safeMalloc fails.
C30_ParserAcceptsMaxArgs ==
  [][(ShellParse /\ Len(Tokens(sh.cmdLine)) \in 1..(MAX_ARGS - 1)) =>
        \/ /\ sh'.pc = "execute"
           /\ sh'.cmd.argCount = Len(Tokens(sh.cmdLine))
           /\ sh'.cmd.args = Tokens(sh.cmdLine)
        \/ /\ sh'.pc = "exited"
           /\ sh'.err = Append(sh.err, "CouldNotAllocate")]_vars

\* C31: the shell ends in one of three ways only: input times out (the
\* inactivity message, exit status success), the command exit is read (exit
\* status success, no child forked), or the child of a command reports a
\* wait status that is not 0 (the shell exits with that status); and after
\* a child whose wait status is 0 the shell is back at reading a line.
C31_LoopEndsInThreeWays ==
  [][/\ (sh.pc # "exited" /\ sh'.pc = "exited") =>
          \/ /\ sh.pc = "input"
             /\ sh'.state = "TIMED_OUT"
             /\ sh'.err = Append(sh.err, "NoActivity")
             /\ sh'.exitCode = EXIT_SUCCESS
          \/ /\ sh.pc = "execute"
             /\ sh.cmd.name = CMD_EXIT
             /\ sh'.executed = sh.executed
             /\ sh'.exitCode = EXIT_SUCCESS
          \/ /\ sh.pc = "execute"
             /\ Len(sh'.executed) = Len(sh.executed) + 1
             /\ sh'.executed[Len(sh'.executed)].childStatus # 0
             /\ sh'.exitCode = sh'.executed[Len(sh'.executed)].childStatus
     /\ (/\ Len(sh'.executed) = Len(sh.executed) + 1
         /\ sh'.executed[Len(sh'.executed)].childStatus = 0) =>
          sh'.pc = "input"]_vars

\* C32: a child is forked for a command only in an iteration whose input()
\* returned NOT_EMPTY: after EMPTY nothing is executed.
C32_NoExecutionOnEmpty ==
  [][Len(sh'.executed) > Len(sh.executed) => sh.state = "NOT_EMPTY"]_vars

====
